---------------------------- MODULE Spec2Model ----------------------------
(***************************************************************************)
(* Model of BotDialogueManager (backend/core/bot_dialogue.py): the         *)
(* inter-bot dialogue turn-taking coordinator.                             *)
(*                                                                         *)
(* Times are whole seconds.  A message text is a tuple of one-character    *)
(* strings, so that lower(), strip() and split() are computed.  Python's   *)
(* None is the string "None" for tokens and the empty tuple for an         *)
(* Optional[datetime] (a datetime t is <<t>>).  Display names and model     *)
(* names are tuples of characters too; the Cyrillic literals of the source  *)
(* are transliterated.                                                     *)
(***************************************************************************)
EXTENDS Integers, Sequences, FiniteSets, TLC

VARIABLES
    bot_configs,     \* self.bot_configs: insertion-ordered dict, a sequence of items
    dialogue_state,  \* module-level dialogue_state: chat_id -> state record
    call,            \* the operation that ran last, with its arguments
    ret,             \* what that operation returned
    prev,            \* dialogue_state as it was when that operation started
    recorded,        \* per chat, every turn update_dialogue_state ever recorded
    permitted,       \* per polling task: should_respond let it answer and it has not yet
    clock            \* the clock the polling tasks read current_time from

vars == <<bot_configs, dialogue_state, call, ret, prev, recorded, permitted, clock>>

None == "None"

-----------------------------------------------------------------------------
(* Program constants (BotDialogueManager.__init__ and literals)            *)

message_timeout == 180

max_history == 15

third_bot_timeout == 180

\* the default display name of .get("name", ...)
DefaultBotName == <<"B", "o", "t">>

\* the marker get_third_bot_token looks for in the lower-cased model name
PerplexityMarker == <<"p", "e", "r", "p", "l", "e", "x", "i", "t", "y">>

\* the lower-case display name that both get_third_bot_token and
\* should_third_bot_intervene compare a lower-cased name with
ThirdBotLabel == <<"p", "e", "r", "p", "l", "e", "x", "i", "t", "i">>

\* a message shorter than this counts as a short answer
short_length == 50

\* the entries build_conversation_context renders
context_window == 10

-----------------------------------------------------------------------------
(* Bounds of the model                                                     *)

\* turns recorded in one behaviour of Spec
MaxTurns == 1

\* turns recorded in one behaviour of SpecReg
MaxRegTurns == 2

\* turns recorded in one behaviour of SpecHist, beyond max_history
MaxExtraTurns == 5

\* turns of one behaviour of SpecHist that carry the second text
MaxOtherTexts == 1

\* turns recorded in one behaviour of SpecLoop
MaxLoopTurns == 4

\* turns recorded in one behaviour of SpecAux
MaxAuxTurns == 3

\* turns recorded in one behaviour of SpecRole
MaxRoleTurns == 3

\* turns recorded in one behaviour of SpecIso, over both chats
MaxIsoTurns == 3

\* turns recorded in one behaviour of SpecPoll
MaxPollTurns == 3

\* turns recorded in one behaviour of SpecRace beyond max_history
MaxRaceExtra == 2

\* turns of one behaviour of SpecRace that are not task A's at time 0
MaxRaceOthers == 2

-----------------------------------------------------------------------------
(* Input domains                                                           *)

Chats == {"chat1", "chat2"}

Tokens == {"A", "B", "C"}

\* the bots that poll for updates, each in a task of its own
Pollers == {"A", "B", "C"}

N_Alice == <<"A", "l", "i", "c", "e">>

N_Bob == <<"B", "o", "b">>

N_Perplexiti == <<"P", "e", "r", "p", "l", "e", "x", "i", "t", "i">>

M_chat == <<"c", "h", "a", "t">>

M_search == <<"P", "e", "r", "p", "l", "e", "x", "i", "t", "y", "-", "A", "I">>

Prompt == <<"p", "r", "o", "m", "p", "t">>

\* a message of exactly short_length characters
T_long == [i \in 1..50 |-> "z"]

Hello == <<"H", "e", "l", "l", "o", "!">>

HiAlice == <<"H", "i", " ", "A", "l", "i", "c", "e", "!">>

T_hi == <<"h", "i">>

T_HiSp == <<" ", "H", "i", " ">>

T_empty == <<>>

T_blank == <<" ">>

T_x == <<"x">>

T_abcd == <<"a", " ", "b", " ", "c", " ", "d">>

T_abce == <<"A", " ", " ", "b", " ", "c", " ", "e">>

LoopTexts == {T_hi, T_HiSp, T_empty, T_blank, T_x, T_abcd, T_abce}

RecordTimes == {0, 5}

CheckTimes == {0, 10, 143, 144, 149, 180, 181, 185}

-----------------------------------------------------------------------------
(* Sequence helpers                                                        *)

\* Python xs[-n:] for n > 0
LastN(xs, n) == IF Len(xs) <= n THEN xs ELSE SubSeq(xs, Len(xs) - n + 1, Len(xs))

Range(xs) == {xs[i] : i \in DOMAIN xs}

-----------------------------------------------------------------------------
(* datetime                                                                *)

\* (a - b).total_seconds()
total_seconds(a, b) == a - b

\* datetime.isoformat(): the clock reading rendered as minutes and seconds
isoformat(t) == <<t \div 60, t % 60>>

\* datetime.fromisoformat()
fromisoformat(s) == s[1] * 60 + s[2]

\* truth value of a token: None and the empty string are falsy
Truthy(x) == x # None /\ x # ""

-----------------------------------------------------------------------------
(* bot_configs: an insertion-ordered dict token -> config                  *)

ConfigIndex(configs, token) ==
    IF \E i \in DOMAIN configs : configs[i].token = token
    THEN CHOOSE i \in DOMAIN configs : configs[i].token = token
    ELSE 0

\* self.bot_configs.get(bot_token, {}).get("name", DefaultBotName)
bot_name_of(configs, bot_token) ==
    IF ConfigIndex(configs, bot_token) = 0
    THEN DefaultBotName
    ELSE configs[ConfigIndex(configs, bot_token)].name

\* dict.setdefault: an old key keeps its config
dict_set_keep(configs, token, config) ==
    IF ConfigIndex(configs, token) = 0
    THEN Append(configs, [token |-> token] @@ config)
    ELSE configs

\* self.bot_configs[bot_token] = {...}: a new key goes last, an old key keeps its place
dict_set(configs, token, config) ==
    IF ConfigIndex(configs, token) = 0
    THEN Append(configs, [token |-> token] @@ config)
    ELSE [configs EXCEPT ![ConfigIndex(configs, token)] = [token |-> token] @@ config]

-----------------------------------------------------------------------------
(* Per-chat state                                                          *)

\* dialogue_state = {}
EmptyDict == [c \in {} |-> None]

NewState ==
    [last_speaker |-> None, last_message_time |-> <<>>, conversation_history |-> <<>>]

NoCall ==
    [op |-> "init", chat_id |-> None, text |-> <<>>, token |-> None,
     time |-> 0, candidate |-> None, arg |-> 0]

Init ==
    /\ bot_configs = <<>>
    /\ dialogue_state = EmptyDict
    /\ call = NoCall
    /\ ret = None
    /\ prev = EmptyDict
    /\ recorded = [c \in Chats |-> <<>>]
    /\ permitted = [p \in Pollers |-> FALSE]
    /\ clock = 0

-----------------------------------------------------------------------------
(* register_bot                                                            *)

register_bot(bot_token, model, bot_name, system_prompt) ==
    /\ bot_configs' = dict_set(bot_configs, bot_token,
                               [model |-> model, name |-> bot_name,
                                system_prompt |-> system_prompt])
    /\ call' = [NoCall EXCEPT !.op = "register_bot", !.token = bot_token,
                              !.text = bot_name, !.arg = model]
    /\ ret' = None
    /\ prev' = dialogue_state
    /\ UNCHANGED <<dialogue_state, recorded>>

-----------------------------------------------------------------------------
(* should_respond                                                          *)

\* last_speaker_is_me comparing against the bot's display name, never a token
last_speaker_is_me_name(state, current_bot_token) ==
    <<state.last_speaker>> = bot_name_of(<<>>, current_bot_token)

\* state["last_speaker"] == current_bot_token
last_speaker_is_me(state, current_bot_token) ==
    state.last_speaker = current_bot_token

\* timeout_not_passed with <= for <
timeout_not_passed_le(state, current_time) ==
    /\ state.last_message_time # <<>>
    /\ total_seconds(current_time, state.last_message_time[1]) <= message_timeout

\* the pacing test of the normal turn-taking step
timeout_not_passed(state, current_time) ==
    /\ state.last_message_time # <<>>
    /\ total_seconds(current_time, state.last_message_time[1]) < message_timeout

\* too_early_to_join without the 0.8 factor
too_early_to_join_full(state, current_time) ==
    /\ state.last_message_time # <<>>
    /\ total_seconds(current_time, state.last_message_time[1]) < message_timeout

\* the relaxed test of the three-way case: time_diff < message_timeout * 0.8
too_early_to_join(state, current_time) ==
    /\ state.last_message_time # <<>>
    /\ total_seconds(current_time, state.last_message_time[1]) * 10 < message_timeout * 8

\* the decision of should_respond for a chat that has state
respond_decision(state, sender_token, current_time, current_bot_token) ==
    IF last_speaker_is_me(state, current_bot_token) THEN FALSE
    ELSE IF state.last_speaker = sender_token
         THEN ~timeout_not_passed(state, current_time)
    ELSE IF /\ Truthy(state.last_speaker)
            /\ state.last_speaker # current_bot_token
            /\ too_early_to_join(state, current_time)
         THEN FALSE
    ELSE TRUE

\* respond_result falling through to the rules with the state it just created
respond_result_fallthrough(states, chat_id, sender_token, current_time, current_bot_token) ==
    respond_decision(IF chat_id \in DOMAIN states THEN states[chat_id] ELSE NewState,
                     sender_token, current_time, current_bot_token)

\* what should_respond returns: True at once for a chat without state
respond_result(states, chat_id, sender_token, current_time, current_bot_token) ==
    IF chat_id \notin DOMAIN states THEN TRUE
    ELSE respond_decision(states[chat_id], sender_token, current_time,
                          current_bot_token)

\* the state creation done for every call, not only for a chat without state
respond_state_reset(states, chat_id) == (chat_id :> NewState) @@ states

\* the state creation done for every chat at once
respond_state_all(states, chat_id) ==
    [c \in Chats |-> IF c \in DOMAIN states THEN states[c] ELSE NewState]

\* if chat_id not in dialogue_state: dialogue_state[chat_id] = {...}
respond_state(states, chat_id) ==
    IF chat_id \notin DOMAIN states
    THEN (chat_id :> NewState) @@ states
    ELSE states

should_respond(chat_id, message_text, sender_token, current_time, current_bot_token) ==
    /\ dialogue_state' = respond_state(dialogue_state, chat_id)
    /\ ret' = respond_result(dialogue_state, chat_id, sender_token, current_time,
                             current_bot_token)
    /\ call' = [op |-> "should_respond", chat_id |-> chat_id, text |-> message_text,
                token |-> sender_token, time |-> current_time,
                candidate |-> current_bot_token, arg |-> 0]
    /\ prev' = dialogue_state
    /\ UNCHANGED <<bot_configs, recorded>>

-----------------------------------------------------------------------------
(* update_dialogue_state                                                   *)

\* history_entry storing the token where the display name belongs
history_entry_token(configs, bot_token, message_text, current_time) ==
    [speaker |-> <<bot_token>>,
     text |-> message_text,
     time |-> isoformat(current_time)]

\* the entry appended to conversation_history
history_entry(configs, bot_token, message_text, current_time) ==
    [speaker |-> bot_name_of(configs, bot_token),
     text |-> message_text,
     time |-> isoformat(current_time)]

\* limit_history keeping the oldest entries: history[:max_history]
limit_history_oldest(history) ==
    IF Len(history) > max_history THEN SubSeq(history, 1, max_history) ELSE history

\* limit_history cutting only from two entries over the bound
limit_history_late(history) ==
    IF Len(history) > max_history + 1 THEN LastN(history, max_history) ELSE history

\* limit_history starting the history anew when it is over the bound
limit_history_restart(history) ==
    IF Len(history) > max_history THEN <<>> ELSE history

\* the bound on conversation_history: history[-max_history:] when it is longer
limit_history(history) ==
    IF Len(history) > max_history THEN LastN(history, max_history) ELSE history

\* updated_state keeping the later of the two times as last_message_time
updated_state_latest(state, configs, bot_token, message_text, current_time) ==
    [last_speaker |-> bot_token,
     last_message_time |->
         IF state.last_message_time # <<>> /\ state.last_message_time[1] > current_time
         THEN state.last_message_time
         ELSE <<current_time>>,
     conversation_history |->
         limit_history(Append(state.conversation_history,
                              history_entry(configs, bot_token, message_text,
                                            current_time)))]

\* updated_state that leaves last_message_time as it was
updated_state_speaker_only(state, configs, bot_token, message_text, current_time) ==
    [last_speaker |-> bot_token,
     last_message_time |-> state.last_message_time,
     conversation_history |->
         limit_history(Append(state.conversation_history,
                              history_entry(configs, bot_token, message_text,
                                            current_time)))]

\* the chat's state after the update (state is the chat's state, created if absent)
updated_state(state, configs, bot_token, message_text, current_time) ==
    [last_speaker |-> bot_token,
     last_message_time |-> <<current_time>>,
     conversation_history |->
         limit_history(Append(state.conversation_history,
                              history_entry(configs, bot_token, message_text,
                                            current_time)))]

update_dialogue_state(chat_id, bot_token, message_text, current_time) ==
    /\ LET state == IF chat_id \in DOMAIN dialogue_state
                    THEN dialogue_state[chat_id] ELSE NewState
       IN dialogue_state' =
              (chat_id :> updated_state(state, bot_configs, bot_token,
                                        message_text, current_time))
              @@ dialogue_state
    /\ recorded' = [recorded EXCEPT ![chat_id] =
                       Append(@, [token |-> bot_token,
                                  name |-> bot_name_of(bot_configs, bot_token),
                                  text |-> message_text,
                                  time |-> current_time])]
    /\ call' = [op |-> "update_dialogue_state", chat_id |-> chat_id,
                text |-> message_text, token |-> bot_token,
                time |-> current_time, candidate |-> None, arg |-> 0]
    /\ ret' = None
    /\ prev' = dialogue_state
    /\ UNCHANGED bot_configs

-----------------------------------------------------------------------------
(* str.lower(), str.strip(), str.split(), str.join()                       *)

UpperCase == <<"A", "B", "C", "D", "E", "F", "G", "H", "I", "J", "K", "L", "M",
               "N", "O", "P", "Q", "R", "S", "T", "U", "V", "W", "X", "Y", "Z">>

LowerCase == <<"a", "b", "c", "d", "e", "f", "g", "h", "i", "j", "k", "l", "m",
               "n", "o", "p", "q", "r", "s", "t", "u", "v", "w", "x", "y", "z">>

\* the lower-case letter of every upper-case letter
LowerOf ==
    [ch \in Range(UpperCase) |->
        LowerCase[CHOOSE i \in DOMAIN UpperCase : UpperCase[i] = ch]]

lower_char(ch) == IF ch \in DOMAIN LowerOf THEN LowerOf[ch] ELSE ch

lower(text) == [i \in DOMAIN text |-> lower_char(text[i])]

IsSpace(ch) == ch \in {" ", "\t", "\n"}

RECURSIVE lstrip(_)
lstrip(text) ==
    IF text # <<>> /\ IsSpace(Head(text)) THEN lstrip(Tail(text)) ELSE text

RECURSIVE rstrip(_)
rstrip(text) ==
    IF text # <<>> /\ IsSpace(text[Len(text)])
    THEN rstrip(SubSeq(text, 1, Len(text) - 1))
    ELSE text

strip(text) == rstrip(lstrip(text))

\* the first word of a text that does not start with whitespace: the characters
\* before its first whitespace character
first_word(text) ==
    IF \E i \in DOMAIN text : IsSpace(text[i])
    THEN SubSeq(text, 1, (CHOOSE i \in DOMAIN text :
                             /\ IsSpace(text[i])
                             /\ \A j \in 1..(i - 1) : ~IsSpace(text[j])) - 1)
    ELSE text

\* str.split(): the words between runs of whitespace
RECURSIVE split(_)
split(text) ==
    LET t == lstrip(text)
    IN IF t = <<>> THEN <<>>
       ELSE <<first_word(t)>> \o split(SubSeq(t, Len(first_word(t)) + 1, Len(t)))

\* words[0:n]
FirstN(words, n) == IF Len(words) <= n THEN words ELSE SubSeq(words, 1, n)

\* ' '.join(words)
RECURSIVE join(_)
join(words) ==
    IF words = <<>> THEN <<>>
    ELSE IF Len(words) = 1 THEN words[1]
    ELSE words[1] \o <<" ">> \o join(Tail(words))

-----------------------------------------------------------------------------
(* detect_looping                                                          *)

\* recent_messages over history[-3:]
recent_messages_three(history) ==
    LET last == LastN(history, 3)
    IN [i \in DOMAIN last |-> strip(lower(last[i].text))]

\* recent_messages = [msg['text'].lower().strip() for msg in history[-4:]]
recent_messages(history) ==
    LET last == LastN(history, 4)
    IN [i \in DOMAIN last |-> strip(lower(last[i].text))]

\* with_words without the filter: a blank message stays in the comparison
with_words_all(recent) == recent

\* [msg for msg in recent_messages if msg.split()]
RECURSIVE with_words(_)
with_words(recent) ==
    IF recent = <<>> THEN <<>>
    ELSE IF split(Head(recent)) # <<>>
         THEN <<Head(recent)>> \o with_words(Tail(recent))
    ELSE with_words(Tail(recent))

\* the joined first three words of every message that has a word
first_words(recent) ==
    LET kept == with_words(recent)
    IN [i \in DOMAIN kept |-> join(FirstN(split(kept[i]), 3))]

\* looping that starts comparing from two entries
looping_from_two(history, min_similarity) ==
    IF Len(history) < 2 THEN FALSE
    ELSE IF Cardinality(Range(recent_messages(history))) < 2 THEN TRUE
    ELSE IF /\ Len(recent_messages(history)) >= 2
            /\ Cardinality(Range(first_words(recent_messages(history)))) < 2
         THEN TRUE
    ELSE FALSE

\* looping taking the first-words rule as a similarity score of 70
looping_threshold(history, min_similarity) ==
    IF Len(history) < 3 THEN FALSE
    ELSE IF Cardinality(Range(recent_messages(history))) < 2 THEN TRUE
    ELSE IF /\ min_similarity <= 70
            /\ Len(recent_messages(history)) >= 2
            /\ Cardinality(Range(first_words(recent_messages(history)))) < 2
         THEN TRUE
    ELSE FALSE

\* the result of detect_looping for a chat's history; min_similarity is not read
looping(history, min_similarity) ==
    IF Len(history) < 3 THEN FALSE
    ELSE IF Cardinality(Range(recent_messages(history))) < 2 THEN TRUE
    ELSE IF /\ Len(recent_messages(history)) >= 2
            /\ Cardinality(Range(first_words(recent_messages(history)))) < 2
         THEN TRUE
    ELSE FALSE

detect_looping(chat_id, min_similarity) ==
    /\ ret' = IF chat_id \notin DOMAIN dialogue_state THEN FALSE
              ELSE looping(dialogue_state[chat_id].conversation_history,
                           min_similarity)
    /\ call' = [NoCall EXCEPT !.op = "detect_looping", !.chat_id = chat_id,
                              !.arg = min_similarity]
    /\ prev' = dialogue_state
    /\ UNCHANGED <<bot_configs, dialogue_state, recorded>>

-----------------------------------------------------------------------------
(* get_third_bot_token                                                     *)

\* needle in hay
Contains(hay, needle) ==
    \E i \in 0..(Len(hay) - Len(needle)) : SubSeq(hay, i + 1, i + Len(needle)) = needle

\* is_third_bot with "or name" for the comparison of the name: any name passes
is_third_bot_any_name(config) ==
    \/ Contains(lower(config.model), PerplexityMarker)
    \/ lower(config.name) # <<>>

\* the test get_third_bot_token applies to one config
is_third_bot(config) ==
    \/ Contains(lower(config.model), PerplexityMarker)
    \/ lower(config.name) = ThirdBotLabel

\* the token of the first registered bot that passes the test, or None
get_third_bot_token(configs) ==
    IF \E i \in DOMAIN configs : is_third_bot(configs[i])
    THEN LET first == CHOOSE i \in DOMAIN configs :
                          /\ is_third_bot(configs[i])
                          /\ \A j \in 1..(i - 1) : ~is_third_bot(configs[j])
         IN configs[first].token
    ELSE None

-----------------------------------------------------------------------------
(* should_third_bot_intervene                                              *)

\* too_few_messages that lets a history one entry short pass
too_few_messages_short(history, min_messages_before) ==
    Len(history) < min_messages_before - 1

\* the history has fewer entries than min_messages_before
too_few_messages(history, min_messages_before) ==
    Len(history) < min_messages_before

\* msg.get("speaker", "").lower() == the label
is_third_bot_message(msg) == lower(msg.speaker) = ThirdBotLabel

\* the time of the last entry whose speaker passes the test, <<>> without one
last_third_bot_message_time(history) ==
    IF \E i \in DOMAIN history : is_third_bot_message(history[i])
    THEN LET last == CHOOSE i \in DOMAIN history :
                         /\ is_third_bot_message(history[i])
                         /\ \A j \in (i + 1)..Len(history) :
                               ~is_third_bot_message(history[j])
         IN <<fromisoformat(history[last].time)>>
    ELSE <<>>

\* time_since_last < self.third_bot_timeout
third_bot_spoke_recently(history, current_time) ==
    /\ last_third_bot_message_time(history) # <<>>
    /\ total_seconds(current_time, last_third_bot_message_time(history)[1])
           < third_bot_timeout

\* short_answers without the test for three entries
short_answers_any(history) ==
    /\ history # <<>>
    /\ \A i \in DOMAIN history : i > Len(history) - 3 => Len(history[i].text) < short_length

\* the last three answers are all short
short_answers(history) ==
    /\ Len(history) >= 3
    /\ \A i \in DOMAIN LastN(history, 3) : Len(LastN(history, 3)[i].text) < short_length

\* the decision once the third bot may speak: looping first, then short answers
intervene_decision(history) ==
    IF looping(history, 70) THEN TRUE
    ELSE IF short_answers(history) THEN TRUE
    ELSE FALSE

\* what should_third_bot_intervene returns
intervene_result(configs, states, chat_id, current_time, min_messages_before) ==
    IF ~Truthy(get_third_bot_token(configs)) THEN FALSE
    ELSE IF chat_id \notin DOMAIN states THEN FALSE
    ELSE IF too_few_messages(states[chat_id].conversation_history, min_messages_before)
         THEN FALSE
    ELSE IF third_bot_spoke_recently(states[chat_id].conversation_history, current_time)
         THEN FALSE
    ELSE intervene_decision(states[chat_id].conversation_history)

should_third_bot_intervene(chat_id, current_time, min_messages_before) ==
    /\ ret' = intervene_result(bot_configs, dialogue_state, chat_id, current_time,
                               min_messages_before)
    /\ call' = [NoCall EXCEPT !.op = "should_third_bot_intervene",
                              !.chat_id = chat_id, !.time = current_time,
                              !.arg = min_messages_before]
    /\ prev' = dialogue_state
    /\ UNCHANGED <<bot_configs, dialogue_state, recorded>>

-----------------------------------------------------------------------------
(* build_conversation_context                                              *)

\* the fixed instruction lines; a fixed line is a text of one element
InstructionLines ==
    << <<"ATTENTION: analyse the dialogue history above. Your answer must:">>,
       <<"- develop the topic, not repeat earlier thoughts">>,
       <<"- add new information or ask new questions">>,
       <<"- avoid plain greetings if there were some already">>,
       <<>>,
       <<"Dialogue history:">> >>

\* f"{msg['speaker']}: {msg['text']}"
format_line(msg) == msg.speaker \o <<":", " ">> \o msg.text

\* the window of 8 entries the source's comment speaks of
recent_history_eight(history) ==
    IF Len(history) > 8 THEN LastN(history, 8) ELSE history

\* recent = history[-10:] if len(history) > 10 else history
recent_history(history) ==
    IF Len(history) > context_window THEN LastN(history, context_window) ELSE history

\* the instruction lines added from 3 entries on
needs_instruction_three(recent) == Len(recent) >= 3

\* the instruction lines are added when recent has more than 3 entries
needs_instruction(recent) == Len(recent) > 3

context_lines(history) ==
    LET recent == recent_history(history)
    IN (IF needs_instruction(recent) THEN InstructionLines ELSE <<>>)
       \o [i \in DOMAIN recent |-> format_line(recent[i])]

\* "\n".join(lines)
RECURSIVE join_lines(_)
join_lines(lines) ==
    IF lines = <<>> THEN <<>>
    ELSE IF Len(lines) = 1 THEN lines[1]
    ELSE lines[1] \o <<"\n">> \o join_lines(Tail(lines))

\* build_conversation_context answering with the instruction lines for a chat without state
context_result_header(states, chat_id) ==
    IF chat_id \notin DOMAIN states THEN join_lines(InstructionLines)
    ELSE IF states[chat_id].conversation_history = <<>> THEN <<>>
    ELSE join_lines(context_lines(states[chat_id].conversation_history))

\* what build_conversation_context returns
context_result(states, chat_id) ==
    IF chat_id \notin DOMAIN states THEN <<>>
    ELSE IF states[chat_id].conversation_history = <<>> THEN <<>>
    ELSE join_lines(context_lines(states[chat_id].conversation_history))

build_conversation_context(chat_id, other_bot_name) ==
    /\ ret' = context_result(dialogue_state, chat_id)
    /\ call' = [NoCall EXCEPT !.op = "build_conversation_context",
                              !.chat_id = chat_id, !.text = other_bot_name]
    /\ prev' = dialogue_state
    /\ UNCHANGED <<bot_configs, dialogue_state, recorded>>

-----------------------------------------------------------------------------
(* The specifications below call the operations directly; no polling task  *)
(* is at work in them and the clock is not read.                           *)

NoPolling == UNCHANGED <<permitted, clock>>

-----------------------------------------------------------------------------
(* Spec: turn taking over two chats                                        *)

TurnsRecorded == Len(recorded["chat1"]) + Len(recorded["chat2"])

ShouldRespond ==
    /\ NoPolling
    /\ \E chat_id \in Chats, sender \in Tokens, now \in CheckTimes,
          candidate \in Tokens \cup {None} :
           should_respond(chat_id, Hello, sender, now, candidate)

RecordTurn ==
    /\ NoPolling
    /\ TurnsRecorded < MaxTurns
    /\ \E chat_id \in Chats, token \in Tokens, now \in RecordTimes :
        update_dialogue_state(chat_id, token, Hello, now)

Next == ShouldRespond \/ RecordTurn

Spec == Init /\ [][Next]_vars

-----------------------------------------------------------------------------
(* SpecHist: one chat, more turns than conversation_history keeps          *)

OtherTexts ==
    Cardinality({i \in DOMAIN recorded["chat1"] : recorded["chat1"][i].text = HiAlice})

HistRecordTurn ==
    /\ NoPolling
    /\ Len(recorded["chat1"]) < max_history + MaxExtraTurns
    /\ \E text \in {Hello, HiAlice} :
        /\ text = HiAlice => OtherTexts < MaxOtherTexts
        /\ update_dialogue_state("chat1", "A", text, Len(recorded["chat1"]))

HistShouldRespond ==
    /\ NoPolling
    /\ should_respond("chat1", Hello, "A", 200, "B")

HistRegister ==
    /\ NoPolling
    /\ register_bot("A", M_chat, N_Alice, Prompt)

HistDetectLooping ==
    /\ NoPolling
    /\ detect_looping("chat1", 70)

HistBuildContext ==
    /\ NoPolling
    /\ \E chat_id \in Chats : build_conversation_context(chat_id, N_Bob)

HistIntervene ==
    /\ NoPolling
    /\ should_third_bot_intervene("chat1", 200, 2)

NextHist ==
    HistRegister \/ HistRecordTurn \/ HistShouldRespond \/ HistDetectLooping
        \/ HistBuildContext \/ HistIntervene

SpecHist == Init /\ [][NextHist]_vars

-----------------------------------------------------------------------------
(* SpecReg: registration, re-registration and the turns recorded after it  *)

RegNames == {N_Alice, N_Bob}

RegRegister ==
    /\ NoPolling
    /\ \E token \in {"A", "B"}, name \in RegNames :
           register_bot(token, M_chat, name, Prompt)

RegRecordTurn ==
    /\ NoPolling
    /\ TurnsRecorded < MaxRegTurns
    /\ \E chat_id \in Chats, token \in Tokens, text \in {Hello, HiAlice},
          now \in RecordTimes :
        update_dialogue_state(chat_id, token, text, now)

NextReg == RegRegister \/ RegRecordTurn

SpecReg == Init /\ [][NextReg]_vars

-----------------------------------------------------------------------------
(* SpecLoop: the texts of one chat's recent turns                          *)

LoopRecordTurn ==
    /\ NoPolling
    /\ Len(recorded["chat1"]) < MaxLoopTurns
    /\ \E text \in LoopTexts :
        update_dialogue_state("chat1", "A", text, 0)

\* min_similarity in hundredths: the default 0.7 and the two ends of its range
Similarities == {0, 70, 100}

LoopDetectLooping ==
    /\ NoPolling
    /\ \E chat_id \in Chats, min_similarity \in Similarities :
           detect_looping(chat_id, min_similarity)

NextLoop == LoopRecordTurn \/ LoopDetectLooping

SpecLoop == Init /\ [][NextLoop]_vars

-----------------------------------------------------------------------------
(* SpecAux: two bots that pass the third-bot test, one by its model and    *)
(* one by its display name, and the question whether to intervene          *)

AuxBots ==
    {[token |-> "A", model |-> M_search, name |-> N_Alice],
     [token |-> "B", model |-> M_chat, name |-> N_Perplexiti]}

AuxTexts == {T_hi, T_x, T_long}

\* the clock reading of the queries; a turn is recorded every 60 seconds, so
\* the turns are 180 (the timeout itself), 120 and 60 seconds old
AuxTimes == {180}

AuxRegister ==
    /\ NoPolling
    /\ \E bot \in AuxBots : register_bot(bot.token, bot.model, bot.name, Prompt)

AuxRecordTurn ==
    /\ NoPolling
    /\ Len(recorded["chat1"]) < MaxAuxTurns
    /\ \E token \in {"A", "B"}, text \in AuxTexts :
        update_dialogue_state("chat1", token, text, 60 * Len(recorded["chat1"]))

AuxIntervene ==
    /\ NoPolling
    /\ \E now \in AuxTimes, min_messages_before \in {0, 2, 4} :
           should_third_bot_intervene("chat1", now, min_messages_before)

NextAux == AuxRegister \/ AuxRecordTurn \/ AuxIntervene

SpecAux == Init /\ [][NextAux]_vars

-----------------------------------------------------------------------------
(* SpecRole: one bot registered again under other names and models         *)

RoleRegister ==
    /\ NoPolling
    /\ \E model \in {M_chat, M_search}, name \in {N_Bob, N_Perplexiti} :
           register_bot("B", model, name, Prompt)

RoleRecordTurn ==
    /\ NoPolling
    /\ Len(recorded["chat1"]) < MaxRoleTurns
    /\ \E token \in {"A", "B"}, text \in {T_hi, T_x} :
        update_dialogue_state("chat1", token, text, 60 * Len(recorded["chat1"]))

RoleIntervene ==
    /\ NoPolling
    /\ \E chat_id \in Chats, now \in {180, 300} :
           should_third_bot_intervene(chat_id, now, 2)

RoleDetectLooping ==
    /\ NoPolling
    /\ \E chat_id \in Chats : detect_looping(chat_id, 70)

RoleBuildContext ==
    /\ NoPolling
    /\ \E chat_id \in Chats : build_conversation_context(chat_id, N_Alice)

NextRole ==
    RoleRegister \/ RoleRecordTurn \/ RoleIntervene \/ RoleDetectLooping
        \/ RoleBuildContext

SpecRole == Init /\ [][NextRole]_vars

-----------------------------------------------------------------------------
(* SpecIso: every operation on two chats that share the bots               *)

IsoRegister ==
    /\ NoPolling
    /\ register_bot("A", M_search, N_Alice, Prompt)

IsoRecordTurn ==
    /\ NoPolling
    /\ TurnsRecorded < MaxIsoTurns
    /\ \E chat_id \in Chats, token \in {"A", "B"} :
        update_dialogue_state(chat_id, token, T_x, 60 * TurnsRecorded)

IsoShouldRespond ==
    /\ NoPolling
    /\ \E chat_id \in Chats, now \in {100, 400}, candidate \in {"B", None} :
           should_respond(chat_id, T_x, "A", now, candidate)

IsoDetectLooping ==
    /\ NoPolling
    /\ \E chat_id \in Chats : detect_looping(chat_id, 70)

IsoIntervene ==
    /\ NoPolling
    /\ \E chat_id \in Chats : should_third_bot_intervene(chat_id, 400, 2)

IsoBuildContext ==
    /\ NoPolling
    /\ \E chat_id \in Chats : build_conversation_context(chat_id, N_Bob)

NextIso ==
    IsoRegister \/ IsoRecordTurn \/ IsoShouldRespond \/ IsoDetectLooping
        \/ IsoIntervene \/ IsoBuildContext

SpecIso == Init /\ [][NextIso]_vars

-----------------------------------------------------------------------------
(* SpecPoll: the bots poll concurrently.  A polling task handles one       *)
(* update at a time: it asks should_respond for itself as candidate and,   *)
(* if the answer is True, produces its reply and records it with           *)
(* update_dialogue_state.  A call is one step, the methods being plain     *)
(* functions run on one event loop; the steps of different tasks           *)
(* interleave, and the clock moves between any two of them.                *)

\* the clock readings: 144 is 0.8 * message_timeout, 180 is message_timeout
PollTimes == {0, 72, 144, 180, 324, 360, 540}

Tick ==
    /\ \E t \in PollTimes : t > clock
    /\ clock' = CHOOSE t \in PollTimes :
                    t > clock /\ \A u \in PollTimes : u > clock => t <= u
    /\ UNCHANGED <<bot_configs, dialogue_state, call, ret, prev, recorded, permitted>>

PollCheck(p) ==
    /\ ~permitted[p]
    /\ \E sender \in Tokens \ {p} : should_respond("chat1", T_x, sender, clock, p)
    /\ permitted' = [permitted EXCEPT ![p] = ret']
    /\ UNCHANGED clock

PollRecord(p) ==
    /\ permitted[p]
    /\ Len(recorded["chat1"]) < MaxPollTurns
    /\ update_dialogue_state("chat1", p, T_x, clock)
    /\ permitted' = [permitted EXCEPT ![p] = FALSE]
    /\ UNCHANGED clock

NextPoll == Tick \/ \E p \in Pollers : PollCheck(p) \/ PollRecord(p)

SpecPoll == Init /\ [][NextPoll]_vars

-----------------------------------------------------------------------------
(* SpecRace: two tasks record turns in one chat, in any order, each with   *)
(* the clock reading it took before it came to call; more turns than       *)
(* conversation_history keeps                                              *)

RaceOthers ==
    Cardinality({i \in DOMAIN recorded["chat1"] :
                    \/ recorded["chat1"][i].token # "A"
                    \/ recorded["chat1"][i].time # 0})

\* task A's bot is registered, if at all, before the tasks start
RaceRegister ==
    /\ NoPolling
    /\ recorded["chat1"] = <<>>
    /\ register_bot("A", M_chat, N_Alice, Prompt)

RaceRecordTurn(p) ==
    /\ NoPolling
    /\ Len(recorded["chat1"]) < max_history + MaxRaceExtra
    /\ \E now \in RecordTimes :
        /\ (p # "A" \/ now # 0) => RaceOthers < MaxRaceOthers
        /\ update_dialogue_state("chat1", p, T_x, now)

NextRace == RaceRegister \/ RaceRecordTurn("A") \/ RaceRecordTurn("B")

SpecRace == Init /\ [][NextRace]_vars

-----------------------------------------------------------------------------
(* Properties of should_respond (Spec)                                     *)

Responded == call.op = "should_respond"

\* the chat of the last call had state when the call started
KnownChat == call.chat_id \in DOMAIN prev

PrevState == prev[call.chat_id]

\* seconds between the chat's last recorded turn and the call's current_time
Elapsed == call.time - PrevState.last_message_time[1]

LastTurn(chat_id) == recorded[chat_id][Len(recorded[chat_id])]

\* C1: after a turn recorded by X, with no later turn recorded in that chat,
\* should_respond for candidate X returns False, whoever the sender is and
\* whatever the current time is.
C1_NoReplyToSelf ==
    (/\ Responded
     /\ recorded[call.chat_id] # <<>>
     /\ call.candidate = LastTurn(call.chat_id).token)
        => ret = FALSE

\* X spoke last and asks after the whole message_timeout, about another sender
C1_Witness ==
    /\ Responded
    /\ recorded[call.chat_id] # <<>>
    /\ call.candidate = LastTurn(call.chat_id).token
    /\ call.token # call.candidate
    /\ call.time - LastTurn(call.chat_id).time >= message_timeout
    /\ ret = FALSE

\* C2: when last_speaker is the sender and not the candidate, should_respond
\* returns False exactly when fewer than 180 seconds have passed since
\* last_message_time.
C2_SenderTimeout ==
    (/\ Responded
     /\ KnownChat
     /\ PrevState.last_speaker = call.token
     /\ PrevState.last_speaker # call.candidate)
        => (ret = FALSE <=> Elapsed < 180)

\* the sender spoke last, exactly 180 seconds ago, and the candidate may answer
C2_Witness ==
    /\ Responded
    /\ KnownChat
    /\ PrevState.last_speaker = call.token
    /\ PrevState.last_speaker # call.candidate
    /\ Elapsed = 180
    /\ ret = TRUE

\* C3: when last_speaker is set and is neither the candidate nor the sender,
\* should_respond returns False exactly when fewer than 144 seconds (0.8 of
\* message_timeout) have passed since last_message_time.
C3_ThreeWayTimeout ==
    (/\ Responded
     /\ KnownChat
     /\ PrevState.last_speaker # None
     /\ PrevState.last_speaker # call.token
     /\ PrevState.last_speaker # call.candidate)
        => (ret = FALSE <=> Elapsed < 144)

\* a third participant spoke last, exactly 144 seconds ago
C3_Witness ==
    /\ Responded
    /\ KnownChat
    /\ PrevState.last_speaker \in Tokens \ {call.token, call.candidate}
    /\ call.candidate \in Tokens
    /\ Elapsed = 144
    /\ ret = TRUE

\* C4: for a chat without state should_respond returns True, whatever the
\* candidate, the sender, the text and the current time.
C4_FirstMessage ==
    (Responded /\ ~KnownChat) => ret = TRUE

\* a first call for a chat, while the other chat's last speaker is the candidate
C4_Witness ==
    /\ Responded
    /\ ~KnownChat
    /\ ret = TRUE
    /\ \E other \in DOMAIN prev : prev[other].last_speaker = call.candidate

\* the first exchange of the scenario: A's "Hello!" at 0 is the only turn of
\* chat1, and B asks about it as the message of sender A
FirstExchange ==
    /\ Responded
    /\ call.chat_id = "chat1"
    /\ call.text = Hello
    /\ call.token = "A"
    /\ call.candidate = "B"
    /\ recorded["chat1"] =
           <<[token |-> "A", name |-> DefaultBotName, text |-> Hello, time |-> 0]>>

\* C5 as stated: B may answer the first recorded turn immediately, at time 0.
C5_Original ==
    (FirstExchange /\ call.time = 0) => ret = TRUE

\* C5, amended: in the first exchange should_respond returns False at time 0;
\* B may answer A's first turn only once 180 seconds have passed.
C5_FirstExchange ==
    FirstExchange => (ret = TRUE <=> call.time >= 180)

\* B asks at time 0 and is told to wait
C5_Witness ==
    FirstExchange /\ call.time = 0 /\ ret = FALSE

-----------------------------------------------------------------------------
(* Properties of update_dialogue_state (SpecHist, SpecReg)                 *)

Recorded == call.op = "update_dialogue_state"

History(chat_id) == dialogue_state[chat_id].conversation_history

\* the number of entries kept after n recorded turns
Kept(n) == IF n < 15 THEN n ELSE 15

\* C6: after n recorded turns conversation_history is the last min(n, 15)
\* recorded turns, in the order they were recorded.
C6_LastFifteen ==
    \A c \in DOMAIN dialogue_state :
        LET n == Len(recorded[c])
            k == Kept(n)
        IN /\ Len(History(c)) = k
           /\ \A i \in 1..k :
                 /\ History(c)[i].speaker = recorded[c][n - k + i].name
                 /\ History(c)[i].text = recorded[c][n - k + i].text
                 /\ fromisoformat(History(c)[i].time) = recorded[c][n - k + i].time

\* 20 turns were recorded, with both texts among the 15 that are kept
C6_Witness ==
    /\ Len(recorded["chat1"]) = 20
    /\ Recorded
    /\ Len(History("chat1")) = 15
    /\ \E i, j \in 1..15 : History("chat1")[i].text # History("chat1")[j].text

\* C7: conversation_history never holds more than 15 entries.
C7_HistoryBound ==
    \A c \in DOMAIN dialogue_state : Len(History(c)) <= 15

\* a turn recorded on a full history
C7_Witness ==
    /\ Recorded
    /\ call.chat_id \in DOMAIN prev
    /\ Len(prev[call.chat_id].conversation_history) = 15
    /\ Len(History(call.chat_id)) = 15

\* C8: update_dialogue_state leaves the chat with state, last_speaker the
\* speaker, last_message_time the current time, and as last history entry the
\* speaker's registered display name, the text and the current time.
C8_RecordTurn ==
    Recorded =>
        /\ call.chat_id \in DOMAIN dialogue_state
        /\ dialogue_state[call.chat_id].last_speaker = call.token
        /\ dialogue_state[call.chat_id].last_message_time = <<call.time>>
        /\ History(call.chat_id) # <<>>
        /\ LET last == History(call.chat_id)[Len(History(call.chat_id))]
           IN /\ last.text = call.text
              /\ fromisoformat(last.time) = call.time
              /\ \A i \in DOMAIN bot_configs :
                    bot_configs[i].token = call.token
                        => last.speaker = bot_configs[i].name

\* the first turn of a chat, recorded by a registered participant
C8_Witness ==
    /\ Recorded
    /\ call.chat_id \notin DOMAIN prev
    /\ \E i \in DOMAIN bot_configs : bot_configs[i].token = call.token
    /\ call.time = 5

-----------------------------------------------------------------------------
(* Properties of detect_looping (SpecLoop)                                 *)

Detected == call.op = "detect_looping" /\ call.chat_id \in DOMAIN dialogue_state

Turns == recorded[call.chat_id]

\* the text of the k-th most recent recorded turn, lower-cased and trimmed
Normal(k) == strip(lower(Turns[Len(Turns) + 1 - k].text))

\* the first three words of a normalised message
Prefix3(msg) == FirstN(split(msg), 3)

Blank(msg) == split(msg) = <<>>

\* the three most recent recorded turns have the same text
ThreeIdentical ==
    /\ Len(Turns) >= 3
    /\ Turns[Len(Turns)].text = Turns[Len(Turns) - 1].text
    /\ Turns[Len(Turns)].text = Turns[Len(Turns) - 2].text

\* C9 as stated: detect_looping returns True whenever the three most recent
\* recorded turns have identical text, whatever was recorded before them.
C9_Original ==
    (Detected /\ ThreeIdentical) => ret = TRUE

\* C9, amended: when the three most recent recorded turns have identical
\* text, detect_looping returns True exactly when the chat has no fourth
\* turn, or the turn before those three, lower-cased and trimmed, starts with
\* the same first three words as they do, or it or they are blank.
C9_ThreeIdentical ==
    (Detected /\ ThreeIdentical)
        => (ret = TRUE <=>
               \/ Len(Turns) = 3
               \/ Prefix3(Normal(4)) = Prefix3(Normal(1))
               \/ Blank(Normal(4))
               \/ Blank(Normal(1)))

\* three identical turns after a different one that starts the same way
C9_Witness ==
    /\ Detected
    /\ ThreeIdentical
    /\ Len(Turns) >= 4
    /\ Normal(4) # Normal(1)
    /\ ~Blank(Normal(4))
    /\ ~Blank(Normal(1))
    /\ ret = TRUE

\* the positions, counted from the most recent turn, that detect_looping reads
Window == 1..(IF Len(Turns) < 4 THEN Len(Turns) ELSE 4)

AllIdentical == \A i, j \in Window : Normal(i) = Normal(j)

\* C10 as stated: with at least 3 entries detect_looping returns True exactly
\* when the last 4 entries, normalised, are all identical or all have the same
\* first-three-words prefix, a blank message having the empty prefix.
C10_Original ==
    (Detected /\ Len(Turns) >= 3)
        => (ret = TRUE <=>
               \/ AllIdentical
               \/ \A i, j \in Window : Prefix3(Normal(i)) = Prefix3(Normal(j)))

\* C10, amended: with at least 3 entries detect_looping returns True exactly
\* when the last 4 entries, normalised, are all identical or those of them
\* that contain a word all have the same first-three-words prefix; a blank
\* message takes no part in the prefix comparison.
C10_Looping ==
    (Detected /\ Len(Turns) >= 3)
        => (ret = TRUE <=>
               \/ AllIdentical
               \/ \A i, j \in Window :
                     (~Blank(Normal(i)) /\ ~Blank(Normal(j)))
                         => Prefix3(Normal(i)) = Prefix3(Normal(j)))

\* a blank message among messages that start alike: looping is reported
C10_Witness ==
    /\ Detected
    /\ Len(Turns) >= 3
    /\ ~AllIdentical
    /\ \E i \in Window : Blank(Normal(i))
    /\ \E i, j \in Window : i # j /\ ~Blank(Normal(i)) /\ ~Blank(Normal(j))
                             /\ Normal(i) # Normal(j)
    /\ ret = TRUE

\* C11: detect_looping returns False for a chat with fewer than 3 history
\* entries, a chat without state included, even when the entries are identical.
C11_FewEntries ==
    (/\ call.op = "detect_looping"
     /\ \/ call.chat_id \notin DOMAIN dialogue_state
        \/ Len(dialogue_state[call.chat_id].conversation_history) < 3)
        => ret = FALSE

\* two identical turns were recorded and no looping is reported
C11_Witness ==
    /\ Detected
    /\ Len(Turns) = 2
    /\ Turns[1].text = Turns[2].text
    /\ ret = FALSE

-----------------------------------------------------------------------------
(* Properties of should_third_bot_intervene (SpecAux, SpecRole)            *)

Intervened == call.op = "should_third_bot_intervene"

\* the history of the chat the last call was about, empty for a chat without state
CallHistory ==
    IF call.chat_id \in DOMAIN dialogue_state
    THEN dialogue_state[call.chat_id].conversation_history
    ELSE <<>>

\* the model name of config i carries the web-search marker
SearchRole(i) == Contains(lower(bot_configs[i].model), PerplexityMarker)

\* token recorded a turn in the call's chat less than 180 seconds before the
\* call's current time
SpokeWithinCooldown(token) ==
    \E k \in DOMAIN recorded[call.chat_id] :
        /\ recorded[call.chat_id][k].token = token
        /\ call.time - recorded[call.chat_id][k].time >= 0
        /\ call.time - recorded[call.chat_id][k].time < 180

\* C12 as stated: if the participant registered with the web-search role,
\* whatever its display name, recorded a turn less than 180 seconds ago,
\* should_third_bot_intervene returns False.
C12_Original ==
    (/\ Intervened
     /\ \E i \in DOMAIN bot_configs :
           /\ SearchRole(i)
           /\ SpokeWithinCooldown(bot_configs[i].token)
           /\ \E k \in DOMAIN recorded[call.chat_id] :
                 /\ recorded[call.chat_id][k].token = bot_configs[i].token
                 /\ recorded[call.chat_id][k].name = bot_configs[i].name)
        => ret = FALSE

\* C13: should_third_bot_intervene returns False when no registered bot
\* carries the marker in its model name or the label as its display name,
\* also when no bot was registered at all.
C13_NoThirdBot ==
    (/\ Intervened
     /\ \A i \in DOMAIN bot_configs :
           /\ ~SearchRole(i)
           /\ lower(bot_configs[i].name) # ThirdBotLabel)
        => ret = FALSE

\* a bot without marker and label is registered and the history is looping
C13_Witness ==
    /\ Intervened
    /\ bot_configs # <<>>
    /\ \A i \in DOMAIN bot_configs :
          ~SearchRole(i) /\ lower(bot_configs[i].name) # ThirdBotLabel
    /\ Len(CallHistory) >= 3
    /\ looping(CallHistory, 70)
    /\ ret = FALSE

\* the last three entries of the call's chat exist and are shorter than 50
ThreeShort ==
    /\ Len(CallHistory) >= 3
    /\ \A k \in (Len(CallHistory) - 2)..Len(CallHistory) : Len(CallHistory[k].text) < 50

\* C14 as stated: with a third bot registered, at least min_messages_before
\* entries and the third bot, the one get_third_bot_token names, not within
\* its cooldown, the result is True if detect_looping is true, otherwise True
\* if the last 3 entries are all shorter than 50 characters, otherwise False.
C14_Original ==
    (/\ Intervened
     /\ get_third_bot_token(bot_configs) # None
     /\ call.chat_id \in DOMAIN dialogue_state
     /\ Len(CallHistory) >= call.arg
     /\ ~SpokeWithinCooldown(get_third_bot_token(bot_configs)))
        => (ret = TRUE <=> (looping(CallHistory, 70) \/ ThreeShort))

\* C15: should_third_bot_intervene returns False when the history has fewer
\* entries than min_messages_before, whatever the entries are.
C15_TooFewMessages ==
    (Intervened /\ Len(CallHistory) < call.arg) => ret = FALSE

\* three short turns, a third bot that has not spoken, and four turns asked for
C15_Witness ==
    /\ Intervened
    /\ ThreeShort
    /\ call.arg = 4
    /\ get_third_bot_token(bot_configs) # None
    /\ ~SpokeWithinCooldown(get_third_bot_token(bot_configs))
    /\ ret = FALSE

-----------------------------------------------------------------------------
(* Properties of build_conversation_context (SpecHist)                     *)

Built == call.op = "build_conversation_context"

\* the turns recorded in the chat the last call was about
CallTurns == recorded[call.chat_id]

\* the number of entries rendered after n recorded turns
Rendered(n) == IF n < 10 THEN n ELSE 10

\* text.split("\n")
RECURSIVE Lines(_)
Lines(text) ==
    IF \E i \in DOMAIN text : text[i] = "\n"
    THEN LET i == CHOOSE j \in DOMAIN text :
                     /\ text[j] = "\n"
                     /\ \A k \in 1..(j - 1) : text[k] # "\n"
         IN <<SubSeq(text, 1, i - 1)>> \o Lines(SubSeq(text, i + 1, Len(text)))
    ELSE <<text>>

\* the returned context starts with the six instruction lines
HasInstruction ==
    /\ Len(Lines(ret)) >= Len(InstructionLines)
    /\ SubSeq(Lines(ret), 1, Len(InstructionLines)) = InstructionLines

\* C16: build_conversation_context returns the empty string for a chat with
\* no recorded turns, and its result starts with the instruction lines
\* exactly when more than 3 entries are rendered.
C16_InstructionBlock ==
    Built =>
        /\ CallTurns = <<>> => ret = <<>>
        /\ HasInstruction <=> Rendered(Len(CallTurns)) > 3

\* the first context that carries the instruction lines: four recorded turns
C16_Witness ==
    /\ Built
    /\ Len(CallTurns) = 4
    /\ HasInstruction

\* C17: the message lines of the context are the last min(10, n) of the n
\* recorded turns, one "speaker: text" line each, oldest first, also after
\* conversation_history was cut to 15 entries.
C17_MessageLines ==
    (Built /\ CallTurns # <<>>) =>
        LET n == Len(CallTurns)
            k == Rendered(n)
            lines == Lines(ret)
            m == Len(lines)
        IN /\ m = k \/ m = k + Len(InstructionLines)
           /\ \A i \in 1..k :
                 lines[m - k + i] =
                     CallTurns[n - k + i].name \o <<":", " ">> \o CallTurns[n - k + i].text

\* a context built after the history was cut, whose oldest line differs from
\* the others in speaker or text
C17_Witness ==
    /\ Built
    /\ Len(CallTurns) > 15
    /\ LET lines == Lines(ret)
       IN /\ Len(lines) = 16
          /\ lines[7] # lines[8]
          /\ lines[8] = lines[16]

-----------------------------------------------------------------------------
(* Chats without state (SpecRole, Spec)                                    *)

Queries == {"build_conversation_context", "detect_looping", "should_third_bot_intervene"}

\* what a query answers when there is nothing to report
NothingToReport(op) == IF op = "build_conversation_context" THEN <<>> ELSE FALSE

\* a step of a query about a chat that has no state
QueryUnknownChat ==
    /\ call'.op \in Queries
    /\ call'.chat_id \notin DOMAIN dialogue_state

\* C18: for a chat without state build_conversation_context returns the
\* empty string, detect_looping and should_third_bot_intervene return False,
\* and the step creates no state for the chat and changes no other state.
C18_UnknownChat ==
    [][QueryUnknownChat =>
          /\ ret' = NothingToReport(call'.op)
          /\ dialogue_state' = dialogue_state
          /\ bot_configs' = bot_configs
          /\ recorded' = recorded]_vars

\* a query about the chat without state, while a third bot is registered and
\* the other chat has three turns
C18_Witness ==
    /\ call.op \in Queries
    /\ call.chat_id = "chat2"
    /\ "chat2" \notin DOMAIN dialogue_state
    /\ get_third_bot_token(bot_configs) # None
    /\ "chat1" \in DOMAIN dialogue_state
    /\ Len(dialogue_state["chat1"].conversation_history) = 3

\* C19 as stated: should_respond leaves the set of chats with state and every
\* chat's state as they were, also for a chat without state.
C19_Original == Responded => dialogue_state = prev

\* C19: should_respond changes nothing for a chat that has state; for a chat
\* without state it creates that chat's state with no last speaker, no last
\* message time and an empty history, and leaves every other chat as it was.
C19_StateCreation ==
    Responded =>
        IF call.chat_id \in DOMAIN prev
        THEN dialogue_state = prev
        ELSE /\ DOMAIN dialogue_state = DOMAIN prev \cup {call.chat_id}
             /\ dialogue_state[call.chat_id].last_speaker = None
             /\ dialogue_state[call.chat_id].last_message_time = <<>>
             /\ dialogue_state[call.chat_id].conversation_history = <<>>
             /\ \A c \in DOMAIN prev : dialogue_state[c] = prev[c]

\* should_respond for a chat without state, while the other chat has a turn
C19_Witness ==
    /\ Responded
    /\ call.chat_id \notin DOMAIN prev
    /\ \E c \in DOMAIN prev : prev[c].conversation_history # <<>>
    /\ call.chat_id \in DOMAIN dialogue_state

-----------------------------------------------------------------------------
(* Registering a bot again (SpecRole)                                      *)

\* the configs registered under token
ConfigsOf(configs, token) == {i \in DOMAIN configs : configs[i].token = token}

\* C20: register_bot for a registered token leaves exactly one config for it,
\* with the new name and model, and the other configs as they were; a turn
\* recorded by the token is stored under the name registered last; the third
\* bot is looked for among the configs registered last; no other operation
\* changes bot_configs.
C20_ReRegister ==
    [][/\ call'.op = "register_bot" =>
             /\ Cardinality(ConfigsOf(bot_configs', call'.token)) = 1
             /\ \A i \in ConfigsOf(bot_configs', call'.token) :
                   /\ bot_configs'[i].name = call'.text
                   /\ bot_configs'[i].model = call'.arg
             /\ \A i \in DOMAIN bot_configs :
                   bot_configs[i].token # call'.token => bot_configs'[i] = bot_configs[i]
             /\ Len(bot_configs') = Len(bot_configs)
                    + (IF ConfigsOf(bot_configs, call'.token) = {} THEN 1 ELSE 0)
       /\ call'.op # "register_bot" => bot_configs' = bot_configs
       /\ call'.op = "update_dialogue_state" =>
             \A i \in ConfigsOf(bot_configs, call'.token) :
                 LET history == dialogue_state'[call'.chat_id].conversation_history
                 IN history[Len(history)].speaker = bot_configs[i].name
       /\ (call'.op = "should_third_bot_intervene" /\ ret' = TRUE) =>
             \E i \in DOMAIN bot_configs :
                 \/ Contains(lower(bot_configs[i].model), PerplexityMarker)
                 \/ lower(bot_configs[i].name) = ThirdBotLabel]_vars

\* the bot recorded a turn, was registered again under another name and
\* another model, and recorded a turn under the new name
C20_Witness ==
    /\ call.op = "update_dialogue_state"
    /\ call.token = "B"
    /\ Len(bot_configs) = 1
    /\ \E j \in DOMAIN recorded["chat1"] :
          /\ recorded["chat1"][j].token = "B"
          /\ recorded["chat1"][j].name # bot_configs[1].name
          /\ recorded["chat1"][j].name # DefaultBotName
    /\ LET history == dialogue_state["chat1"].conversation_history
       IN history[Len(history)].speaker = bot_configs[1].name

-----------------------------------------------------------------------------
(* detect_looping and min_similarity (SpecLoop)                            *)

\* C22: the result of detect_looping does not depend on min_similarity:
\* whatever value the call was made with, its result is the result for the
\* chat's history under every other value of min_similarity.
C22_SimilarityIgnored ==
    Detected =>
        \A s \in Similarities \ {call.arg} : ret = looping(History(call.chat_id), s)

\* looping reported for min_similarity 1.0 on texts that are not all identical
C22_Witness ==
    /\ Detected
    /\ call.arg = 100
    /\ Len(Turns) >= 3
    /\ Cardinality(Range(recent_messages(Turns))) >= 2
    /\ ret = TRUE

-----------------------------------------------------------------------------
(* last_speaker and last_message_time (Spec)                               *)

\* chat c has no last speaker, or no last message time
SpeakerAbsent(states, c) == states[c].last_speaker = None

TimeAbsent(states, c) == states[c].last_message_time = <<>>

\* C23: after every step, in every chat that has state, last_speaker and
\* last_message_time are both absent or both present, and a step that changes
\* one of them is an update_dialogue_state of that chat that sets both, to
\* the speaker and the time it was called with.
C23_SpeakerAndTime ==
    [][\A c \in DOMAIN dialogue_state' :
          /\ SpeakerAbsent(dialogue_state', c) <=> TimeAbsent(dialogue_state', c)
          /\ \/ /\ c \in DOMAIN dialogue_state
                /\ dialogue_state'[c].last_speaker = dialogue_state[c].last_speaker
                /\ dialogue_state'[c].last_message_time
                       = dialogue_state[c].last_message_time
             \/ /\ c \notin DOMAIN dialogue_state
                /\ SpeakerAbsent(dialogue_state', c)
                /\ TimeAbsent(dialogue_state', c)
             \/ /\ call'.op = "update_dialogue_state"
                /\ call'.chat_id = c
                /\ dialogue_state'[c].last_speaker = call'.token
                /\ dialogue_state'[c].last_message_time = <<call'.time>>]_vars

\* one chat with a recorded turn, the other with the state should_respond made
C23_Witness ==
    /\ DOMAIN dialogue_state = Chats
    /\ \E c \in Chats : ~SpeakerAbsent(dialogue_state, c) /\ ~TimeAbsent(dialogue_state, c)
    /\ \E c \in Chats : SpeakerAbsent(dialogue_state, c) /\ TimeAbsent(dialogue_state, c)

-----------------------------------------------------------------------------
(* should_respond asked twice (Spec)                                       *)

\* C28 as stated: a should_respond call that follows a should_respond call
\* with the same chat, text, sender, current time and candidate, no turn
\* recorded in between, returns what the first call returned.
C28_Original ==
    [][(call.op = "should_respond" /\ call' = call) => ret' = ret]_vars

-----------------------------------------------------------------------------
(* should_third_bot_intervene on short histories (SpecAux)                 *)

\* C29: should_third_bot_intervene returns False for a chat with fewer than 3
\* history entries, whatever min_messages_before is and whatever the entries
\* are.
C29_FewerThanThree ==
    (Intervened /\ Len(CallHistory) < 3) => ret = FALSE

\* two identical short entries, two entries asked for, a third bot registered
\* that has not spoken
C29_Witness ==
    /\ Intervened
    /\ call.arg = 2
    /\ Len(CallHistory) = 2
    /\ CallHistory[1].text = CallHistory[2].text
    /\ Len(CallHistory[1].text) < 50
    /\ get_third_bot_token(bot_configs) # None
    /\ ~third_bot_spoke_recently(CallHistory, call.time)
    /\ ret = FALSE

-----------------------------------------------------------------------------
(* Chats do not see each other (SpecIso)                                   *)

\* dialogue_state with every chat but c forgotten
Only(states, c) == [d \in DOMAIN states \cap {c} |-> states[d]]

\* the state of c an update starts from
StateOrNew(states, c) == IF c \in DOMAIN states THEN states[c] ELSE NewState

\* what the operation of this step returns, or stores for its chat, when it
\* is given the state of its own chat alone
OwnChatOnly ==
    LET c == call'.chat_id
        own == Only(dialogue_state, c)
    IN CASE call'.op = "should_respond" ->
                ret' = respond_result(own, c, call'.token, call'.time, call'.candidate)
         [] call'.op = "update_dialogue_state" ->
                dialogue_state'[c] =
                    updated_state(StateOrNew(own, c), bot_configs, call'.token,
                                  call'.text, call'.time)
         [] call'.op = "detect_looping" ->
                ret' = (c \in DOMAIN own /\ looping(own[c].conversation_history, call'.arg))
         [] call'.op = "should_third_bot_intervene" ->
                ret' = intervene_result(bot_configs, own, c, call'.time, call'.arg)
         [] call'.op = "build_conversation_context" ->
                ret' = context_result(own, c)
         [] OTHER -> TRUE

\* C30: an operation on chat c leaves every other chat as it was, without
\* state or with the same last_speaker, last_message_time and
\* conversation_history, and its result is the one it has when the other
\* chats are forgotten.
C30_ChatsIsolated ==
    [][/\ \A d \in Chats \ {call'.chat_id} :
             /\ d \in DOMAIN dialogue_state' <=> d \in DOMAIN dialogue_state
             /\ d \in DOMAIN dialogue_state => dialogue_state'[d] = dialogue_state[d]
       /\ OwnChatOnly]_vars

\* a turn recorded in one chat while the other chat has turns of its own
C30_Witness ==
    /\ call.op = "update_dialogue_state"
    /\ \E d \in DOMAIN prev \ {call.chat_id} :
          /\ Len(prev[d].conversation_history) = 2
          /\ dialogue_state[d] = prev[d]
          /\ dialogue_state[d].last_speaker # dialogue_state[call.chat_id].last_speaker

-----------------------------------------------------------------------------
(* The life of a chat's state (SpecHist)                                   *)

\* chat c has state in states, with a last speaker and a history entry
Speaking(states, c) ==
    /\ c \in DOMAIN states
    /\ states[c].last_speaker # None
    /\ states[c].conversation_history # <<>>

\* C24: update_dialogue_state leaves its chat with a last speaker and a
\* history that is not empty, the first update of a chat included; and no
\* step of any operation deletes a chat's state, takes a chat's last speaker
\* away or empties a chat's history.
C24_NeverBack ==
    [][/\ call'.op = "update_dialogue_state" => Speaking(dialogue_state', call'.chat_id)
       /\ \A c \in DOMAIN dialogue_state :
             /\ c \in DOMAIN dialogue_state'
             /\ Speaking(dialogue_state, c) => Speaking(dialogue_state', c)]_vars

\* a query or a should_respond made after the history was cut to 15 entries
C24_Witness ==
    /\ call.op \in Queries \cup {"should_respond"}
    /\ Len(recorded["chat1"]) > 15
    /\ Speaking(dialogue_state, "chat1")
    /\ Speaking(prev, "chat1")

-----------------------------------------------------------------------------
(* Concurrent polling tasks (SpecPoll)                                     *)

\* the turns recorded in chat1, the chat the polling tasks share
PollTurns == recorded["chat1"]

\* C25 as stated: when every task records a turn only after its own
\* should_respond returned True, any two consecutive recorded turns of a chat
\* are at least 0.8 * message_timeout = 144 seconds apart.
C25_Original ==
    \A i \in 1..(Len(PollTurns) - 1) :
        5 * (PollTurns[i + 1].time - PollTurns[i].time) >= 4 * message_timeout

\* C26: when every task records a turn only after should_respond returned
\* True for it as candidate, and handles one update at a time, no two
\* consecutive recorded turns of a chat have the same speaker.
C26_NoTwiceInARow ==
    \A i \in 1..(Len(PollTurns) - 1) : PollTurns[i + 1].token # PollTurns[i].token

\* two tasks were permitted at the same time and recorded their turns one
\* after the other, while a third task, permitted as well, has still to record
C26_Witness ==
    /\ call.op = "update_dialogue_state"
    /\ Len(PollTurns) = 2
    /\ PollTurns[1].time = PollTurns[2].time
    /\ \E p \in Pollers : permitted[p] /\ p # call.token

-----------------------------------------------------------------------------
(* Turns recorded by several tasks (SpecRace)                              *)

\* C21: once k update_dialogue_state calls of any tasks have completed for a
\* chat, its history holds the last min(k, 15) of their turns in the order
\* the calls completed, and last_speaker and last_message_time are those of
\* the call that completed last.
C21_NoLostUpdate ==
    \A c \in DOMAIN dialogue_state :
        LET n == Len(recorded[c])
            k == Kept(n)
        IN /\ Len(History(c)) = k
           /\ \A i \in 1..k :
                 History(c)[i] = [speaker |-> recorded[c][n - k + i].name,
                                  text |-> recorded[c][n - k + i].text,
                                  time |-> isoformat(recorded[c][n - k + i].time)]
           /\ n > 0 =>
                 /\ dialogue_state[c].last_speaker = recorded[c][n].token
                 /\ dialogue_state[c].last_message_time = <<recorded[c][n].time>>

\* 17 turns, the last two by different tasks, the last one with the earlier
\* clock reading
C21_Witness ==
    /\ Len(recorded["chat1"]) = 17
    /\ recorded["chat1"][16].token # recorded["chat1"][17].token
    /\ recorded["chat1"][16].time > recorded["chat1"][17].time
    /\ dialogue_state["chat1"].last_message_time = <<recorded["chat1"][17].time>>

-----------------------------------------------------------------------------
(* The conversation can continue (Spec)                                    *)

\* should_respond was asked message_timeout seconds or more after the chat's
\* last turn, for a candidate that is not the chat's last speaker
AskedAfterTimeout ==
    /\ Responded
    /\ KnownChat
    /\ PrevState.last_message_time # <<>>
    /\ call.candidate # PrevState.last_speaker
    /\ Elapsed >= message_timeout

\* C27: in every reachable state should_respond returns True for every
\* sender and every candidate other than the chat's last speaker, once
\* message_timeout seconds have passed since the chat's last turn: after a
\* silence of message_timeout every other participant that asks is permitted.
C27_CanContinue == AskedAfterTimeout => ret = TRUE

\* the default candidate is permitted exactly message_timeout seconds after
\* the turn of the sender it is asked about
C27_Witness ==
    /\ AskedAfterTimeout
    /\ Elapsed = message_timeout
    /\ call.token = PrevState.last_speaker
    /\ call.candidate = None
    /\ ret = TRUE

=============================================================================
